---- MODULE Spec2Model ----
(***************************************************************************)
(* react-keybind: the ShortcutProvider of src/index.tsx as a state machine *)
(*                                                                         *)
(* Strings are TLA+ strings; split, join and toLowerCase are computed      *)
(* character by character.  Time is counted in milliseconds and advances   *)
(* in steps of one hold tick (TickMs); a timer that is due fires before    *)
(* the next key event is delivered, so a key event at model time t stands  *)
(* for any real time in [t, t + TickMs).                                   *)
(***************************************************************************)
EXTENDS Integers, Sequences, FiniteSets, TLC

VARIABLES
  \* ---- fields of ShortcutProvider (index.tsx:119-133) ----
  holdDurations,      \* combo string -> hold duration (ms)
  holdInterval,       \* handle of the hold interval, or undefined
  holdListeners,      \* combo string -> method
  holdTimer,          \* elapsed counter of the hold interval (ms)
  keysDown,           \* key tokens currently recorded as down
  listeners,          \* combo string -> method
  previousKeys,       \* sequence buffer
  sequenceListeners,  \* joined sequence key -> method
  sequenceTimer,      \* handle of the sequence timeout, or undefined
  shortcuts,          \* state.shortcuts, the snapshot list
  props,              \* this.props; ignoreTagNames may be absent
  env,                \* the page: the keys of the keyboard, the focusable tags
  \* ---- the host: scheduler and clock ----
  hostTimers,         \* timers scheduled with window.setInterval/setTimeout
  clock,              \* Date.now()
  \* ---- history variables, read by the properties only ----
  physDown,           \* raw keys physically down
  calls,              \* handler invocations made by the last step
  thrown,             \* the last step ended in a TypeError
  lastEv,             \* the last key event or timer callback
  lastDown,           \* the last processed key-down
  undisturbed,        \* no key event since the last processed key-down
  sinceDown,          \* ms since the last processed key-down
  holdFired,          \* hold invocations since the last processed key-down
  nKeyEvents,         \* key events delivered so far (saturating)
  lastCall,           \* the last register/unregister call
  pre,                \* the registry before the last call, kept when that
                      \* call was registerSequenceShortcut
  \* ---- a call of the static transformKeys ----
  transformCall       \* its argument and, once it has returned, its result

registryVars == <<holdDurations, holdListeners, listeners, sequenceListeners,
                  shortcuts, clock, lastCall, pre>>
dispatchVars == <<holdInterval, holdTimer, keysDown, previousKeys,
                  sequenceTimer, hostTimers, physDown, calls, thrown, lastEv,
                  lastDown, undisturbed, sinceDown, holdFired,
                  nKeyEvents>>
vars == <<registryVars, dispatchVars, props, env, transformCall>>

-----------------------------------------------------------------------------
(* Program constants *)

undefined == -1          \* the JavaScript value undefined (handles, durations)
TickMs == 100            \* period of the hold interval
SequenceMs == 2000       \* inactivity timeout of the sequence buffer
ignoreForTagNames == <<"input">>

(* Bounds of the model *)

MaxShortcuts == 2        \* length of the snapshot list
MaxClock == 1            \* clock readings
MaxKeysDown == 4         \* length of keysDown
MaxPrevious == 5         \* length of the sequence buffer
MaxHoldTicks == 5        \* ticks counted by holdTimer
MaxTokens == 3           \* key tokens in an argument of transformKeys

-----------------------------------------------------------------------------
(* Strings *)

LowerChar(c) ==
  CASE c = "A" -> "a" [] c = "B" -> "b" [] c = "C" -> "c" [] c = "D" -> "d"
    [] c = "E" -> "e" [] c = "F" -> "f" [] c = "G" -> "g" [] c = "H" -> "h"
    [] c = "I" -> "i" [] c = "J" -> "j" [] c = "K" -> "k" [] c = "L" -> "l"
    [] c = "M" -> "m" [] c = "N" -> "n" [] c = "O" -> "o" [] c = "P" -> "p"
    [] c = "Q" -> "q" [] c = "R" -> "r" [] c = "S" -> "s" [] c = "T" -> "t"
    [] c = "U" -> "u" [] c = "V" -> "v" [] c = "W" -> "w" [] c = "X" -> "x"
    [] c = "Y" -> "y" [] c = "Z" -> "z" [] OTHER -> c

RECURSIVE toLowerCase(_)
toLowerCase(s) ==
  IF s = "" THEN "" ELSE LowerChar(Head(s)) \o toLowerCase(Tail(s))

RECURSIVE splitFrom(_, _, _, _)
splitFrom(s, sep, cur, acc) ==
  IF s = "" THEN Append(acc, cur)
  ELSE IF Head(s) = sep THEN splitFrom(Tail(s), sep, "", Append(acc, cur))
  ELSE splitFrom(Tail(s), sep, cur \o Head(s), acc)

split(s, sep) == splitFrom(s, sep, "", <<>>)

RECURSIVE join(_, _)
join(xs, sep) ==
  IF xs = <<>> THEN ""
  ELSE IF Len(xs) = 1 THEN xs[1]
  ELSE xs[1] \o sep \o join(Tail(xs), sep)

Map(xs, Op(_)) == [i \in 1..Len(xs) |-> Op(xs[i])]
Range(xs) == {xs[i] : i \in 1..Len(xs)}
indexOf(xs, x) == IF x \in Range(xs) THEN 0 ELSE -1   \* sign only

filter(xs, Keep(_)) == SelectSeq(xs, Keep)

\* Number.prototype.toString(36)
Digits36 == "0123456789abcdefghijklmnopqrstuvwxyz"

RECURSIVE toString36(_)
toString36(n) ==
  IF n < 36 THEN SubSeq(Digits36, n + 1, n + 1)
  ELSE toString36(n \div 36) \o SubSeq(Digits36, (n % 36) + 1, (n % 36) + 1)

(* Objects used as tables *)

Has(t, k) == k \in DOMAIN t
Put(t, k, v) == [x \in DOMAIN t \cup {k} |-> IF x = k THEN v ELSE t[x]]
Delete(t, k) == [x \in DOMAIN t \ {k} |-> t[x]]
Empty == [x \in {} |-> 0]

-----------------------------------------------------------------------------
(* transformKeys, index.tsx:143-163 *)

\* transformKey without the case 'option'
transformKey_NoOption(key) ==
  LET keyEvent == toLowerCase(key) IN
  CASE keyEvent = "opt" -> "alt"
    [] keyEvent = "control" -> "ctrl"
    [] keyEvent = "cmd" -> "meta"
    [] keyEvent = "command" -> "meta"
    [] OTHER -> keyEvent

\* index.tsx:146-160
transformKey(key) ==
  LET keyEvent == toLowerCase(key) IN
  CASE keyEvent = "opt" -> "alt"
    [] keyEvent = "option" -> "alt"
    [] keyEvent = "control" -> "ctrl"
    [] keyEvent = "cmd" -> "meta"
    [] keyEvent = "command" -> "meta"
    [] OTHER -> keyEvent

transformCombo(rawKeys) == join(Map(split(rawKeys, "+"), transformKey), "+")

transformKeys(keys) == Map(keys, transformCombo)

\* the call ShortcutProvider.transformKeys(keys) returns
TransformKeys ==
  /\ ~transformCall.done
  /\ transformCall' = [transformCall EXCEPT
                         !.done = TRUE,
                         !.result = transformKeys(transformCall.keys)]
  /\ UNCHANGED <<holdDurations, holdInterval, holdListeners, holdTimer,
                 keysDown, listeners, previousKeys, sequenceListeners,
                 sequenceTimer, shortcuts, props, env, hostTimers, clock,
                 physDown, calls, thrown, lastEv, lastDown, undisturbed,
                 sinceDown, holdFired, nKeyEvents, lastCall, pre>>

\* the arguments: the lists of combination strings made of at most n tokens,
\* each token starting a new combination or joined to the last one by '+'
Tokens == {"Cmd", "COMMAND", "Opt", "OPTION", "Control", "K", "shift", ""}

RECURSIVE KeyLists(_)
KeyLists(n) ==
  IF n = 0 THEN {<<>>}
  ELSE LET shorter == KeyLists(n - 1) IN
       shorter
         \cup {Append(keys, t) : keys \in shorter, t \in Tokens}
         \cup {[keys EXCEPT ![Len(keys)] = @ \o "+" \o t] :
                 keys \in shorter \ {<<>>}, t \in Tokens}

-----------------------------------------------------------------------------
(* The registry: registerShortcut, registerSequenceShortcut,               *)
(* unregisterShortcut as functions of the registry fields                  *)

Registry == [listeners |-> listeners, holdListeners |-> holdListeners,
             holdDurations |-> holdDurations,
             sequenceListeners |-> sequenceListeners, shortcuts |-> shortcuts]

EmptyRegistry == [listeners |-> Empty, holdListeners |-> Empty,
                  holdDurations |-> Empty, sequenceListeners |-> Empty,
                  shortcuts |-> <<>>]

RECURSIVE PutAll(_, _, _)
PutAll(t, ks, v) ==
  IF ks = <<>> THEN t ELSE PutAll(Put(t, Head(ks), v), Tail(ks), v)

RECURSIVE DeleteAll(_, _)
DeleteAll(t, ks) ==
  IF ks = <<>> THEN t ELSE DeleteAll(Delete(t, Head(ks)), Tail(ks))

\* chordExists looking at the instantaneous table whatever the mode
chordExists_WrongTable(r, transformedKeys, hold) ==
  \E existingKey \in DOMAIN r.listeners :
    \E i \in 1..Len(transformedKeys) : transformedKeys[i] = existingKey

\* index.tsx:298-303
chordExists(r, transformedKeys, hold) ==
  LET table == IF hold THEN r.holdListeners ELSE r.listeners IN
  \E existingKey \in DOMAIN table :
    \E i \in 1..Len(transformedKeys) : transformedKeys[i] = existingKey

\* index.tsx:271-322
registerShortcut(r, now, method, keys, title, description, holdDuration) ==
  LET hold == holdDuration # undefined
      duration == IF holdDuration # undefined THEN holdDuration ELSE 0
      transformedKeys == transformKeys(keys)
      shortcut == [id |-> toString36(now), description |-> description,
                   hold |-> hold, holdDuration |-> duration,
                   keys |-> transformedKeys,
                   method |-> method, sequence |-> FALSE, title |-> title]
  IN IF chordExists(r, transformedKeys, hold) THEN r
     ELSE IF hold
       THEN [r EXCEPT
               !.holdDurations = PutAll(@, transformedKeys, duration),
               !.holdListeners = PutAll(@, transformedKeys, method),
               !.shortcuts = Append(@, shortcut)]
       ELSE [r EXCEPT
               !.listeners = PutAll(@, transformedKeys, method),
               !.shortcuts = Append(@, shortcut)]

\* index.tsx:351-356
sequenceExists(r, keyEvent) ==
  \E existingKey \in DOMAIN r.sequenceListeners : keyEvent = existingKey

\* index.tsx:330-368
registerSequenceShortcut(r, now, method, keys, title, description) ==
  LET shortcut == [id |-> toString36(now), description |-> description,
                   hold |-> FALSE, holdDuration |-> 0, keys |-> keys,
                   method |-> method, sequence |-> TRUE, title |-> title]
      keyEvent == toLowerCase(join(keys, ","))
  IN IF sequenceExists(r, keyEvent) THEN r
     ELSE [r EXCEPT !.sequenceListeners = Put(@, keyEvent, method),
                    !.shortcuts = Append(@, shortcut)]

\* index.tsx:401-407
shortcutMatches(shortcutKeys, transformedKeys) ==
  \A i \in 1..Len(shortcutKeys) : indexOf(transformedKeys, shortcutKeys[i]) >= 0

\* index.tsx:384-409
unregisterShortcut(r, keys, sequence) ==
  LET transformedKeys == transformKeys(keys)
      Kept(s) == ~shortcutMatches(s.keys, transformedKeys)
      tables ==
        IF ~sequence
        THEN [r EXCEPT !.listeners = DeleteAll(@, transformedKeys),
                       !.holdListeners = DeleteAll(@, transformedKeys),
                       !.holdDurations = DeleteAll(@, transformedKeys)]
        ELSE [r EXCEPT !.sequenceListeners =
                          Delete(@, join(transformedKeys, ","))]
  IN [tables EXCEPT !.shortcuts = filter(@, Kept)]

-----------------------------------------------------------------------------
(* Inputs of the registration calls *)

Methods == {"f", "g"}
ChordKeyLists == {<<"meta+k">>, <<"Cmd+K", "b">>}
SequenceKeyLists == {<<"a", "b">>, <<"Cmd", "K">>}
HoldDurationArgs == {undefined, 300}
Title == "Open"
Description == "opens"

NoCall == [op |-> "none", keys |-> <<>>, holdDuration |-> undefined,
           sequence |-> FALSE]

SetRegistry(r) ==
  /\ listeners' = r.listeners
  /\ holdListeners' = r.holdListeners
  /\ holdDurations' = r.holdDurations
  /\ sequenceListeners' = r.sequenceListeners
  /\ shortcuts' = r.shortcuts

RegisterShortcut ==
  \E method \in Methods, keys \in ChordKeyLists,
     holdDuration \in HoldDurationArgs :
    /\ Len(shortcuts) < MaxShortcuts
    /\ SetRegistry(registerShortcut(Registry, clock, method, keys, Title,
                                    Description, holdDuration))
    /\ lastCall' = [op |-> "registerShortcut", keys |-> keys,
                    holdDuration |-> holdDuration, sequence |-> FALSE]
    /\ pre' = EmptyRegistry
    /\ UNCHANGED <<clock, dispatchVars, props, env,
                   transformCall>>

RegisterSequenceShortcut ==
  \E method \in Methods, keys \in SequenceKeyLists :
    /\ Len(shortcuts) < MaxShortcuts
    /\ SetRegistry(registerSequenceShortcut(Registry, clock, method, keys,
                                            Title, Description))
    /\ lastCall' = [op |-> "registerSequenceShortcut", keys |-> keys,
                    holdDuration |-> undefined, sequence |-> TRUE]
    /\ pre' = Registry
    /\ UNCHANGED <<clock, dispatchVars, props, env,
                   transformCall>>

UnregisterShortcut ==
  \E keys \in ChordKeyLists \cup SequenceKeyLists, sequence \in BOOLEAN :
    /\ SetRegistry(unregisterShortcut(Registry, keys, sequence))
    /\ lastCall' = [op |-> "unregisterShortcut", keys |-> keys,
                    holdDuration |-> undefined, sequence |-> sequence]
    /\ pre' = EmptyRegistry
    /\ UNCHANGED <<clock, dispatchVars, props, env,
                   transformCall>>

\* Date.now() moves on between calls, or does not
ClockTick ==
  /\ clock < MaxClock
  /\ clock' = clock + 1
  /\ UNCHANGED <<holdDurations, holdListeners, listeners, sequenceListeners,
                 shortcuts, lastCall, pre, dispatchVars, props, env,
                   transformCall>>

-----------------------------------------------------------------------------
(* The engine after construction, index.tsx:119-133 *)

NoDown == [tokens |-> <<>>, processed |-> FALSE, buffered |-> 0]
NoEvent == [type |-> "none", key |-> "", tag |-> "", phys |-> FALSE,
            processed |-> FALSE, prev |-> NoDown, gap |-> 0]

InitDispatch ==
  /\ holdInterval = undefined
  /\ holdTimer = 0
  /\ keysDown = <<>>
  /\ previousKeys = <<>>
  /\ sequenceTimer = undefined
  /\ hostTimers = {}
  /\ physDown = {}
  /\ calls = <<>>
  /\ thrown = FALSE
  /\ lastEv = NoEvent
  /\ lastDown = NoDown
  /\ undisturbed = FALSE
  /\ sinceDown = 0
  /\ holdFired = 0
  /\ nKeyEvents = 0

InitRegistry ==
  /\ listeners = Empty
  /\ holdListeners = Empty
  /\ holdDurations = Empty
  /\ sequenceListeners = Empty
  /\ shortcuts = <<>>
  /\ clock = 0
  /\ lastCall = NoCall
  /\ pre = EmptyRegistry

NoProps == Empty

NoKeys == [keys |-> {}, tags |-> {}]

NoTransform == [keys |-> <<>>, done |-> FALSE, result |-> <<>>]

InitReg ==
  /\ InitRegistry
  /\ InitDispatch
  /\ props = NoProps
  /\ env = NoKeys
  /\ transformCall = NoTransform

-----------------------------------------------------------------------------
(* The host scheduler: window.setInterval, setTimeout, clearInterval,      *)
(* clearTimeout.  A timer is a record; fireIn is the time to its next      *)
(* firing; an interval keeps the closure of the key-down that created it.  *)

NewHandle(timers) ==
  CHOOSE n \in 1..(Cardinality(timers) + 1) :
    /\ \A t \in timers : t.id # n
    /\ \A m \in 1..(n - 1) : \E t \in timers : t.id = m

clearTimer(timers, handle) == {t \in timers : t.id # handle}

TimerDue == \E t \in hostTimers : t.fireIn = 0

\* the timer fields of the engine together with the host's timers
Timers == [holdInterval |-> holdInterval, holdTimer |-> holdTimer,
           hostTimers |-> hostTimers]

\* resetTimer without the call of clearInterval
resetTimer_NoClear(T) ==
  IF T.holdInterval # undefined
  THEN [holdInterval |-> undefined, holdTimer |-> 0,
        hostTimers |-> T.hostTimers]
  ELSE T

\* index.tsx:373-379
resetTimer(T) ==
  IF T.holdInterval # undefined
  THEN [holdInterval |-> undefined, holdTimer |-> 0,
        hostTimers |-> clearTimer(T.hostTimers, T.holdInterval)]
  ELSE T

\* index.tsx:168-173; the callback is the closure over keysDown and keyPress
createTimer(T, closureKeys, keyPress) ==
  LET handle == NewHandle(T.hostTimers) IN
  [T EXCEPT !.holdInterval = handle,
            !.hostTimers = @ \cup {[id |-> handle, kind |-> "interval",
                                    fireIn |-> TickMs,
                                    keysDown |-> closureKeys,
                                    keyPress |-> keyPress]}]

\* setSequenceTimeout with a window of half the length
setSequenceTimeout_Short(timers) ==
  LET handle == NewHandle(timers) IN
  [handle |-> handle,
   timers |-> timers \cup {[id |-> handle, kind |-> "timeout",
                            fireIn |-> SequenceMs \div 2, keysDown |-> <<>>,
                            keyPress |-> ""]}]

\* index.tsx:237-240
setSequenceTimeout(timers) ==
  LET handle == NewHandle(timers) IN
  [handle |-> handle,
   timers |-> timers \cup {[id |-> handle, kind |-> "timeout",
                            fireIn |-> SequenceMs, keysDown |-> <<>>,
                            keyPress |-> ""]}]

Call(tbl, key, method) == [tbl |-> tbl, key |-> key, method |-> method]
Min(a, b) == IF a < b THEN a ELSE b
SinceCap == SequenceMs + TickMs

-----------------------------------------------------------------------------
(* keyDown, index.tsx:178-242 *)

Modifiers(ctrl, alt, meta) ==
  (IF ctrl THEN <<"ctrl">> ELSE <<>>) \o (IF alt THEN <<"alt">> ELSE <<>>)
    \o (IF meta THEN <<"meta">> ELSE <<>>)

\* ignoreList without the tags of the props
ignoreList_DefaultOnly == ignoreForTagNames

\* index.tsx:182-184
ignoreList ==
  IF "ignoreTagNames" \in DOMAIN props
  THEN Map(props.ignoreTagNames, toLowerCase) \o ignoreForTagNames
  ELSE ignoreForTagNames

\* the guard of index.tsx:189
keyDownProcessed(rawKey, tag) ==
  /\ indexOf(ignoreList, toLowerCase(tag)) < 0
  /\ indexOf(keysDown, toLowerCase(rawKey)) < 0

keyDown(rawKey, ctrl, alt, meta, tag) ==
  LET key == toLowerCase(rawKey)
      pressed == Modifiers(ctrl, alt, meta) \o <<key>>
      keyPress == join(pressed, "+")
      instant == IF Has(listeners, keyPress)
                 THEN <<Call("instant", keyPress, listeners[keyPress])>>
                 ELSE <<>>
      T == createTimer(resetTimer(Timers), pressed, keyPress)
      cleared == IF sequenceTimer # undefined
                 THEN clearTimer(T.hostTimers, sequenceTimer)
                 ELSE T.hostTimers
      buffer == previousKeys \o pressed
      sequenceKeys == join(buffer, ",")
      sequence == IF Has(sequenceListeners, sequenceKeys)
                  THEN <<Call("sequence", sequenceKeys,
                              sequenceListeners[sequenceKeys])>>
                  ELSE <<>>
      timeout == setSequenceTimeout(cleared)
      ev == [type |-> "keyDown", key |-> rawKey, tag |-> tag,
             phys |-> rawKey \notin physDown,
             processed |-> keyDownProcessed(rawKey, tag), prev |-> lastDown,
             gap |-> sinceDown]
  IN
  IF keyDownProcessed(rawKey, tag)
  THEN /\ Len(keysDown) + Len(pressed) <= MaxKeysDown
       /\ Len(buffer) <= MaxPrevious
       /\ calls' = instant \o sequence
       /\ keysDown' = keysDown \o pressed
       /\ holdInterval' = T.holdInterval
       /\ holdTimer' = T.holdTimer
       /\ previousKeys' = buffer
       /\ sequenceTimer' = timeout.handle
       /\ hostTimers' = timeout.timers
       /\ lastEv' = ev
       /\ lastDown' = [tokens |-> pressed, processed |-> TRUE,
                       buffered |-> Len(previousKeys)]
       /\ undisturbed' = TRUE
       /\ sinceDown' = 0
       /\ holdFired' = 0
  ELSE /\ calls' = <<>>
       /\ lastEv' = ev
       /\ undisturbed' = FALSE
       /\ UNCHANGED <<keysDown, holdInterval, holdTimer, previousKeys,
                      sequenceTimer, hostTimers, lastDown, sinceDown,
                      holdFired>>

\* The keyboard: the keys of the model, by their KeyboardEvent.key, and the
\* modifier flags an event carries, which are those of the modifier keys
\* that are down once the event's own key has gone down or up
RawKeys == {"a", "b", "K", "Alt", "Control"}
Tags == {"DIV", "INPUT"}
Page(keys, tags) == [keys |-> keys, tags |-> tags]
ctrlKey(down) == "Control" \in down
altKey(down) == "Alt" \in down
metaKey(down) == "Meta" \in down

KeyDown ==
  \E rawKey \in env.keys, tag \in env.tags :
    LET down == physDown \cup {rawKey} IN
    /\ ~TimerDue
    /\ keyDown(rawKey, ctrlKey(down), altKey(down), metaKey(down), tag)
    /\ physDown' = down
    /\ thrown' = FALSE
    /\ nKeyEvents' = Min(nKeyEvents + 1, 2)
    /\ UNCHANGED <<registryVars, props, env, transformCall>>

-----------------------------------------------------------------------------
(* keyUp, index.tsx:247-263 *)

keyUp(rawKey, ctrl, alt, meta) ==
  LET keysUp == Modifiers(ctrl, alt, meta) \o <<toLowerCase(rawKey)>>
      StillDown(key) == indexOf(keysUp, key) < 0
      T == resetTimer(Timers)
  IN /\ keysDown' = filter(keysDown, StillDown)
     /\ holdInterval' = T.holdInterval
     /\ holdTimer' = T.holdTimer
     /\ hostTimers' = T.hostTimers

KeyUp ==
  \E rawKey \in physDown, tag \in env.tags :
    LET down == physDown \ {rawKey} IN
    /\ ~TimerDue
    /\ keyUp(rawKey, ctrlKey(down), altKey(down), metaKey(down))
    /\ physDown' = down
    /\ calls' = <<>>
    /\ thrown' = FALSE
    /\ lastEv' = [type |-> "keyUp", key |-> rawKey, tag |-> tag,
                  phys |-> TRUE, processed |-> TRUE, prev |-> NoDown,
                  gap |-> 0]
    /\ nKeyEvents' = Min(nKeyEvents + 1, 2)
    /\ undisturbed' = FALSE
    /\ UNCHANGED <<previousKeys, sequenceTimer, lastDown, sinceDown,
                   holdFired, registryVars, props, env,
                   transformCall>>

-----------------------------------------------------------------------------
(* The callbacks run by the host *)

TimerEvent(type) ==
  [type |-> type, key |-> "", tag |-> "", phys |-> FALSE, processed |-> TRUE,
   prev |-> NoDown, gap |-> 0]

\* one iteration of keysDown.forEach, index.tsx:214-220; a missing hold
\* listener makes the call throw a TypeError, which ends the callback
holdCheck(st, key, keyPress) ==
  IF st.thrown THEN st
  ELSE IF Has(holdDurations, key) /\ st.T.holdTimer >= holdDurations[key]
  THEN IF Has(holdListeners, keyPress)
       THEN [st EXCEPT !.calls = Append(@, Call("hold", keyPress,
                                                 holdListeners[keyPress])),
                       !.T = resetTimer(@)]
       ELSE [st EXCEPT !.thrown = TRUE]
  ELSE st

RECURSIVE holdCallback(_, _, _)
holdCallback(st, closureKeys, keyPress) ==
  IF closureKeys = <<>> THEN st
  ELSE holdCallback(holdCheck(st, Head(closureKeys), keyPress),
                    Tail(closureKeys), keyPress)

\* the interval function of createTimer, index.tsx:169-172
intervalFired(t) ==
  LET st == holdCallback([T |-> Timers, calls |-> <<>>, thrown |-> FALSE],
                         t.keysDown, t.keyPress)
      rescheduled == {IF u.id = t.id /\ u.kind = "interval"
                      THEN [u EXCEPT !.fireIn = TickMs] ELSE u :
                      u \in st.T.hostTimers}
  IN /\ calls' = st.calls
     /\ thrown' = st.thrown
     /\ holdInterval' = st.T.holdInterval
     /\ holdTimer' = IF st.thrown THEN st.T.holdTimer
                     ELSE st.T.holdTimer + TickMs
     /\ hostTimers' = rescheduled
     /\ holdFired' = Min(holdFired + Len(st.calls), 2)

HoldTick ==
  \E t \in hostTimers :
    /\ t.kind = "interval"
    /\ t.fireIn = 0
    /\ intervalFired(t)
    /\ lastEv' = TimerEvent("holdTick")
    /\ UNCHANGED <<keysDown, previousKeys, sequenceTimer, physDown, lastDown,
                   undisturbed, sinceDown, nKeyEvents, registryVars, props,
                   env, transformCall>>

\* the timeout function forgetting to empty the buffer
sequenceTimeoutFired_KeepsBuffer ==
  /\ previousKeys' = previousKeys
  /\ sequenceTimer' = undefined

\* the timeout function of index.tsx:237-240
sequenceTimeoutFired ==
  /\ previousKeys' = <<>>
  /\ sequenceTimer' = undefined

SequenceTimeout ==
  \E t \in hostTimers :
    /\ t.kind = "timeout"
    /\ t.fireIn = 0
    /\ sequenceTimeoutFired
    /\ hostTimers' = hostTimers \ {t}
    /\ calls' = <<>>
    /\ thrown' = FALSE
    /\ lastEv' = TimerEvent("sequenceTimeout")
    /\ UNCHANGED <<keysDown, holdInterval, holdTimer, physDown, lastDown,
                   undisturbed, sinceDown, holdFired, nKeyEvents,
                   registryVars, props, env, transformCall>>

\* TickMs of time pass with no key event
Advance ==
  /\ hostTimers # {}
  /\ ~TimerDue
  /\ holdInterval # undefined => holdTimer < MaxHoldTicks * TickMs
  /\ hostTimers' = {[t EXCEPT !.fireIn = @ - TickMs] : t \in hostTimers}
  /\ sinceDown' = Min(sinceDown + TickMs, SinceCap)
  /\ calls' = <<>>
  /\ thrown' = FALSE
  /\ lastEv' = TimerEvent("advance")
  /\ UNCHANGED <<keysDown, holdInterval, holdTimer, previousKeys,
                 sequenceTimer, physDown, lastDown, undisturbed, holdFired,
                 nKeyEvents, registryVars, props, env, transformCall>>

-----------------------------------------------------------------------------
(* Engines with shortcuts registered, as the registration calls leave them *)

Instant ==
  registerShortcut(
    registerShortcut(EmptyRegistry, 0, "f", <<"Alt+K">>, Title, Description,
                     undefined),
    0, "g", <<"alt+alt">>, Title, Description, undefined)

SingleKeyHold ==
  registerShortcut(EmptyRegistry, 0, "f", <<"k">>, Title, Description, 300)

TwoHolds ==
  registerShortcut(
    registerShortcut(EmptyRegistry, 0, "f", <<"k">>, Title, Description, 100),
    0, "g", <<"ctrl+k">>, Title, Description, 300)

ChordHold ==
  registerShortcut(EmptyRegistry, 0, "g", <<"ctrl+k">>, Title, Description,
                   100)

InstantAndHold ==
  registerShortcut(
    registerShortcut(EmptyRegistry, 0, "f", <<"k">>, Title, Description,
                     undefined),
    0, "g", <<"k">>, Title, Description, 300)

Sequence ==
  registerSequenceShortcut(EmptyRegistry, 0, "h", <<"a", "b">>, Title,
                           Description)

InitWithProps(setups, p) ==
  /\ \E setup \in setups :
       /\ listeners = setup[1].listeners
       /\ holdListeners = setup[1].holdListeners
       /\ holdDurations = setup[1].holdDurations
       /\ sequenceListeners = setup[1].sequenceListeners
       /\ shortcuts = setup[1].shortcuts
       /\ env = setup[2]
  /\ clock = 0
  /\ lastCall = NoCall
  /\ pre = EmptyRegistry
  /\ InitDispatch
  /\ props = p
  /\ transformCall = NoTransform

InitWith(setups) == InitWithProps(setups, NoProps)

NextKeys ==
  \/ KeyDown
  \/ KeyUp
  \/ HoldTick
  \/ SequenceTimeout
  \/ Advance

\* instantaneous chords on a keyboard with a modifier key
InitInstant == InitWith({<<Instant, Page({"K", "Alt"}, {"DIV"})>>})
SpecInstant == InitInstant /\ [][NextKeys]_vars

\* hold shortcuts
InitHold ==
  InitWith({<<SingleKeyHold, Page({"K", "Control"}, {"DIV"})>>,
            <<TwoHolds, Page({"K", "Control"}, {"DIV"})>>,
            <<ChordHold, Page({"K", "Control"}, {"DIV"})>>})
SpecHold == InitHold /\ [][NextKeys]_vars

\* a sequence shortcut
InitSequence == InitWith({<<Sequence, Page({"a", "b"}, {"DIV"})>>})
SpecSequence == InitSequence /\ [][NextKeys]_vars

\* a page with ignored elements: input by default, textarea by the props
IgnoreProps == [ignoreTagNames |-> <<"TextArea">>]
InitIgnore ==
  InitWithProps({<<InstantAndHold,
                   Page({"K"}, {"DIV", "INPUT", "TEXTAREA"})>>},
                IgnoreProps)
SpecIgnore == InitIgnore /\ [][NextKeys]_vars

\* registration calls on a fresh engine
NextReg ==
  \/ RegisterShortcut
  \/ RegisterSequenceShortcut
  \/ UnregisterShortcut

SpecReg == InitReg /\ [][NextReg]_vars

\* registration calls as the clock moves on
NextIds == NextReg \/ ClockTick
SpecIds == InitReg /\ [][NextIds]_vars

\* transformKeys called on each argument
InitTransform ==
  /\ InitRegistry
  /\ InitDispatch
  /\ props = NoProps
  /\ env = NoKeys
  /\ \E keys \in KeyLists(MaxTokens) :
       transformCall = [keys |-> keys, done |-> FALSE, result |-> <<>>]
SpecTransform == InitTransform /\ [][TransformKeys]_vars

\* the whole program
Init == InitReg
Next == NextReg \/ NextKeys \/ ClockTick \/ TransformKeys
Spec == Init /\ [][Next]_vars

-----------------------------------------------------------------------------
(* Properties of the dispatch core *)

\* the combo string of the last key-down event, from the keys that were down
EventCombo ==
  join(Modifiers(ctrlKey(physDown), altKey(physDown), metaKey(physDown))
         \o <<toLowerCase(lastEv.key)>>, "+")

OnIgnoredTarget == indexOf(ignoreList, toLowerCase(lastEv.tag)) >= 0

CallsOf(tbl, key) ==
  Cardinality({i \in DOMAIN calls : calls[i].tbl = tbl /\ calls[i].key = key})

\* C1: a key-down on a non-ignored target whose combo string is a key of the
\* instantaneous table invokes that handler exactly once when it is a
\* physical press of the key, and not at all when it is a further key-down
\* of a key that has not gone up since (auto-repeat).
C1_OncePerPhysicalPress ==
  (/\ lastEv.type = "keyDown"
   /\ ~OnIgnoredTarget
   /\ Has(listeners, EventCombo))
  => CallsOf("instant", EventCombo) = (IF lastEv.phys THEN 1 ELSE 0)

\* the engine has one hold shortcut, on the combo string combo
OnlyHold(combo) == DOMAIN holdListeners = {combo} /\ Has(holdDurations, combo)

\* the combo was pressed and has been held since, with no other key event,
\* and every timer that is due has fired
Held(tokens) ==
  /\ lastDown.processed
  /\ lastDown.tokens = tokens
  /\ undisturbed
  /\ ~TimerDue

\* C2: on a fresh engine with one hold shortcut, on the single key k with
\* duration d, when k is pressed and held with no other key event, the hold
\* handler is invoked on the first tick at which k has been held for d ms or
\* more: it has been invoked once the time held reaches d, and not before.
C2_FiresOnFirstTickAtThreshold ==
  (/\ OnlyHold("k")
   /\ nKeyEvents = 1
   /\ Held(<<"k">>))
  => (holdFired >= 1 <=> sinceDown >= holdDurations["k"])

\* C3: a hold handler registered for a combo with duration d is never invoked
\* before the key-down that produced the combo has been followed by d ms
\* without a key-up, whatever other hold shortcuts are registered.
C3_NeverBeforeDuration ==
  \A i \in DOMAIN calls :
    calls[i].tbl = "hold" =>
      /\ Has(holdDurations, calls[i].key)
      /\ sinceDown >= holdDurations[calls[i].key]

\* C4: a hold shortcut on the combo ctrl+k with duration d, the only hold
\* shortcut, is invoked when ctrl+k is pressed and held past d with no other
\* key event: once every tick up to a time later than d has fired, the
\* handler has been invoked.
C4_ChordHoldFires ==
  (/\ OnlyHold("ctrl+k")
   /\ Held(<<"ctrl", "k">>)
   /\ sinceDown > holdDurations["ctrl+k"])
  => holdFired >= 1

\* the last event is a physical key-down of b, without modifiers and on a
\* non-ignored target, and the last processed key-down before it was a
\* key-down of a without modifiers
BAfterA ==
  /\ Has(sequenceListeners, "a,b")
  /\ lastEv.type = "keyDown"
  /\ lastEv.phys
  /\ ~OnIgnoredTarget
  /\ EventCombo = "b"
  /\ lastEv.prev.processed
  /\ lastEv.prev.tokens = <<"a">>

\* C5 as stated: with the sequence [a, b] registered, a key-down of b less
\* than 2000 ms after a processed key-down of a, no key-down between them,
\* invokes the sequence handler, whatever keys were pressed before a.
C5_Original ==
  (BAfterA /\ lastEv.gap < SequenceMs) => CallsOf("sequence", "a,b") = 1

\* C5: with the sequence [a, b] registered, a key-down of b less than 2000 ms
\* after a processed key-down of a that found the sequence buffer empty, no
\* key-down between them, invokes the sequence handler.
C5_FiresWithinWindow ==
  (BAfterA /\ lastEv.gap < SequenceMs /\ lastEv.prev.buffered = 0)
  => CallsOf("sequence", "a,b") = 1

C5_Witness ==
  /\ BAfterA
  /\ lastEv.gap = SequenceMs - TickMs
  /\ lastEv.prev.buffered = 0
  /\ CallsOf("sequence", "a,b") = 1

\* C6: with the sequence [a, b] registered, a key-down of b more than 2000 ms
\* after the key-down of a, no processed key-down between them, does not
\* invoke the sequence handler: the timeout has emptied the buffer.
C6_NoFireAfterWindow ==
  (BAfterA /\ lastEv.gap >= SequenceMs)
  => (CallsOf("sequence", "a,b") = 0 /\ previousKeys = <<"b">>)

C6_Witness ==
  /\ BAfterA
  /\ lastEv.gap >= SequenceMs
  /\ lastEv.prev.buffered = 0
  /\ previousKeys = <<"b">>

\* the engine's key state, timers and sequence buffer are as they were
DispatchUnchanged ==
  /\ keysDown' = keysDown
  /\ holdInterval' = holdInterval
  /\ holdTimer' = holdTimer
  /\ previousKeys' = previousKeys
  /\ sequenceTimer' = sequenceTimer
  /\ hostTimers' = hostTimers

\* the tag is input or one of ignoreTagNames, letter case apart
IgnoredTag(tag) ==
  \/ toLowerCase(tag) = "input"
  \/ /\ "ignoreTagNames" \in DOMAIN props
     /\ \E i \in DOMAIN props.ignoreTagNames :
          toLowerCase(tag) = toLowerCase(props.ignoreTagNames[i])

\* the event of this step is of one of the types and its target is ignored
IgnoredEvent(types) ==
  /\ lastEv'.type \in types
  /\ IgnoredTag(lastEv'.tag)

\* C11 as stated: a key-down or key-up whose target's tag is in the ignore
\* list invokes no handler and leaves Key-State, the hold timer, the sequence
\* buffer and the sequence timeout unchanged.
C11_Original ==
  [][IgnoredEvent({"keyDown", "keyUp"})
     => (calls' = <<>> /\ DispatchUnchanged)]_vars

\* C11: a key-down whose target's tag is in the ignore list (input and the
\* tags of ignoreTagNames, compared in lower case) invokes no handler and
\* leaves Key-State, the hold timer, the sequence buffer and the sequence
\* timeout unchanged; a key-up is processed whatever its target.
C11_KeyDownIgnored ==
  [][/\ IgnoredEvent({"keyDown"}) => (calls' = <<>> /\ DispatchUnchanged)
     /\ IgnoredEvent({"keyUp"})
          => (calls' = <<>> /\ holdInterval' = undefined
              /\ toLowerCase(lastEv'.key) \notin Range(keysDown'))]_vars

\* a physical key-down of k on a textarea, with k's handler registered and
\* an earlier k still in the sequence buffer
C11_Witness ==
  /\ lastEv.type = "keyDown"
  /\ lastEv.tag = "TEXTAREA"
  /\ lastEv.phys
  /\ Has(listeners, EventCombo)
  /\ keysDown = <<>>
  /\ previousKeys = <<"k">>
  /\ sequenceTimer # undefined
  /\ calls = <<>>

\* C12: no callback of the engine raises: every key-down, key-up, hold tick
\* and sequence timeout runs to its end; a hold tick calls a hold handler only
\* when the hold table has one for the pressed combo string.
C12_NoCallbackRaises == ~thrown

TimersOfKind(kind) == {t \in hostTimers : t.kind = kind}

\* C16: at most one hold interval and at most one sequence timeout are
\* scheduled with the host, and a scheduled timer is the one whose handle the
\* engine holds in holdInterval or sequenceTimer: no orphan timer is left.
C16_NoOrphanTimer ==
  /\ Cardinality(TimersOfKind("interval")) <= 1
  /\ Cardinality(TimersOfKind("timeout")) <= 1
  /\ \A t \in TimersOfKind("interval") : t.id = holdInterval
  /\ \A t \in TimersOfKind("timeout") : t.id = sequenceTimer

\* a second key-down has been processed while the interval and the timeout
\* of the first were pending
C16_Witness ==
  /\ nKeyEvents = 2
  /\ lastEv.type = "keyDown"
  /\ lastEv.processed
  /\ lastEv.prev.processed
  /\ lastEv.gap < TickMs
  /\ Cardinality(TimersOfKind("interval")) = 1
  /\ Cardinality(TimersOfKind("timeout")) = 1

\* C17: after every key-up the hold timer is stopped and reset: no hold
\* interval is active and the elapsed counter is 0, also when a hold handler
\* has fired before and whether or not other keys remain down.
C17_KeyUpResetsHoldTimer ==
  lastEv.type = "keyUp" => (holdInterval = undefined /\ holdTimer = 0)

\* the last step was a hold tick that invoked a hold handler
HoldHandlerInvoked ==
  /\ lastEv.type = "holdTick"
  /\ \E i \in DOMAIN calls : calls[i].tbl = "hold"

\* C18: when a tick has invoked a hold handler, the elapsed counter is 0 once
\* the tick has completed and the hold interval is still active, so that the
\* chord is checked again on later ticks.
C18_TimerRunsOnAfterFire ==
  HoldHandlerInvoked
  => /\ holdTimer = 0
     /\ holdInterval # undefined
     /\ TimersOfKind("interval") # {}

\* C19: Key-State holds the keys that are down and no others: when every key
\* that was pressed has been released, the flags of each event being those of
\* the modifier keys still down, Key-State is empty.
C19_KeyStateEmptyWhenAllUp ==
  physDown = {} => keysDown = <<>>

-----------------------------------------------------------------------------
(* Properties of the registry *)

\* the canonical form of a combination string: lower case, aliases resolved
Alias(token) ==
  CASE token \in {"opt", "option"} -> "alt"
    [] token = "control" -> "ctrl"
    [] token \in {"cmd", "command"} -> "meta"
    [] OTHER -> token

Canonical(combo) == join(Map(split(toLowerCase(combo), "+"), Alias), "+")

TablesUnchanged ==
  /\ listeners' = listeners
  /\ holdListeners' = holdListeners
  /\ holdDurations' = holdDurations
  /\ sequenceListeners' = sequenceListeners

\* some combo of the request is already a key of the table it goes to
ConflictsWith(keys, hold) ==
  \E i \in DOMAIN keys :
    Canonical(keys[i]) \in DOMAIN (IF hold THEN holdListeners ELSE listeners)

\* C7: registerShortcut is all-or-nothing: when a canonicalized combo of the
\* request is already a key of the target table, the call leaves the tables
\* and the snapshot list unchanged; two combos that differ by alias or letter
\* case only are the same combo.
C7_AllOrNothing ==
  [][(/\ lastCall'.op = "registerShortcut"
      /\ ConflictsWith(lastCall'.keys, lastCall'.holdDuration # undefined))
     => (TablesUnchanged /\ shortcuts' = shortcuts)]_vars

C7_Witness ==
  /\ lastCall.op = "registerShortcut"
  /\ lastCall.keys = <<"Cmd+K", "b">>
  /\ lastCall.holdDuration = undefined
  /\ Has(listeners, "meta+k")
  /\ ~Has(listeners, "b")

ShortcutMode(s) ==
  IF s.sequence THEN "sequence" ELSE IF s.hold THEN "hold" ELSE "instantaneous"

CombinationKeys(s) ==
  IF s.sequence THEN {toLowerCase(join(s.keys, ","))} ELSE Range(s.keys)

\* C8: no two shortcuts of the snapshot list that have the same mode have a
\* canonical combination key in common.
C8_NoSharedCombo ==
  \A i, j \in DOMAIN shortcuts :
    (i < j /\ ShortcutMode(shortcuts[i]) = ShortcutMode(shortcuts[j]))
    => CombinationKeys(shortcuts[i]) \cap CombinationKeys(shortcuts[j]) = {}

\* the request names no registered combination
NamesNothing(keys, sequence) ==
  IF sequence
  THEN /\ ~Has(sequenceListeners, join(Map(keys, Canonical), ","))
       /\ ~Has(sequenceListeners, toLowerCase(join(keys, ",")))
  ELSE \A i \in DOMAIN keys :
         /\ ~Has(listeners, Canonical(keys[i]))
         /\ ~Has(holdListeners, Canonical(keys[i]))

\* C9: unregisterShortcut called with keys that name no registered
\* combination is a no-op: the tables and the snapshot list are unchanged.
C9_UnregisterAbsentIsNoOp ==
  [][(/\ lastCall'.op = "unregisterShortcut"
      /\ NamesNothing(lastCall'.keys, lastCall'.sequence))
     => (TablesUnchanged /\ shortcuts' = shortcuts)]_vars

\* C10: registerSequenceShortcut with a key list that conflicts with no
\* registered sequence, followed by unregisterShortcut of the same key list
\* as a sequence, restores the sequence table and the snapshot list.
C10_RegisterThenUnregister ==
  [][(/\ lastCall.op = "registerSequenceShortcut"
      /\ ~Has(pre.sequenceListeners, toLowerCase(join(lastCall.keys, ",")))
      /\ lastCall'.op = "unregisterShortcut"
      /\ lastCall'.sequence
      /\ lastCall'.keys = lastCall.keys)
     => (/\ sequenceListeners' = pre.sequenceListeners
         /\ shortcuts' = pre.shortcuts)]_vars

IsLowerCase(str) == toLowerCase(str) = str

\* C13: every shortcut of the snapshot list has its keys stored canonical:
\* each key is lower case, and each key of an instantaneous or hold shortcut
\* is a fixed point of the canonical form (aliases resolved).
C13_StoredKeysCanonical ==
  \A i \in DOMAIN shortcuts :
    \A k \in DOMAIN shortcuts[i].keys :
      /\ IsLowerCase(shortcuts[i].keys[k])
      /\ ~shortcuts[i].sequence
           => Canonical(shortcuts[i].keys[k]) = shortcuts[i].keys[k]

\* C14: no two shortcuts of the snapshot list have the same id, also when
\* both were registered while the clock read the same millisecond.
C14_UniqueIds ==
  \A i, j \in DOMAIN shortcuts : i # j => shortcuts[i].id # shortcuts[j].id

\* the combination keys of the listed shortcuts of a mode
ListedKeys(mode) ==
  UNION {CombinationKeys(shortcuts[i]) :
           i \in {j \in DOMAIN shortcuts : ShortcutMode(shortcuts[j]) = mode}}

\* C20: the routing tables and the snapshot list agree: the keys of the
\* instantaneous table, of the hold table and of the sequence table are the
\* combination keys of the listed shortcuts of that mode, the key of a
\* sequence shortcut being its keys joined by commas in lower case.
C20_TablesAgreeWithList ==
  /\ DOMAIN listeners = ListedKeys("instantaneous")
  /\ DOMAIN holdListeners = ListedKeys("hold")
  /\ DOMAIN sequenceListeners = ListedKeys("sequence")

-----------------------------------------------------------------------------
(* Properties of transformKeys *)

\* the '+'-segments of the output are those of the input, each in lower case
\* with its alias resolved
SegmentsNormalized(rawKeys, out) ==
  LET ins == split(rawKeys, "+")
      outs == split(out, "+")
  IN /\ Len(outs) = Len(ins)
     /\ \A j \in DOMAIN ins : outs[j] = Alias(toLowerCase(ins[j]))

\* C15: transformKeys returns a list of the length of its argument in which
\* each entry is the entry of the argument with each '+'-segment lower-cased
\* and opt/option, control, cmd/command rewritten to alt, ctrl, meta; the
\* order of the segments and the '+' between them are kept.
C15_TransformKeysIsNormalizer ==
  transformCall.done
  => /\ Len(transformCall.result) = Len(transformCall.keys)
     /\ \A i \in DOMAIN transformCall.keys :
          SegmentsNormalized(transformCall.keys[i], transformCall.result[i])

C15_Witness ==
  /\ transformCall.done
  /\ transformCall.keys = <<"Cmd+K", "OPTION">>
  /\ transformCall.result = <<"meta+k", "alt">>

====
